---- MODULE Spec2Model ----
(***************************************************************************)
(* Model of dbms/src/Formats/ProtobufReader.cpp: the wire scanner          *)
(* (ProtobufReader::SimpleReader) and the dispatcher                       *)
(* (ProtobufReader::readColumnIndex) over a byte stream.                   *)
(*                                                                         *)
(* UInt64 values are written as signed representatives modulo 2^64, the    *)
(* way the source writes its sentinels (static_cast<UInt64>(-1)): a        *)
(* negative number n stands for 2^64 + n.  Addition and subtraction of     *)
(* representatives is then ordinary integer arithmetic, and the unsigned   *)
(* order is U64Lt.                                                         *)
(***************************************************************************)
EXTENDS Integers, Sequences, FiniteSets, TLC

\* ---------------------------------------------------------------- bounds
MaxFields == 2
BufSize == 4

\* ------------------------------------------------------------- constants
VARINT == 0
BITS64 == 1
LENGTH_DELIMITED == 2
GROUP_START == 3
GROUP_END == 4
BITS32 == 5

REACHED_END == 0
END_OF_VARINT == -1
END_OF_GROUP == -2

\* ------------------------------------------------- UInt64 representatives
U64Lt(a, b) == IF (a >= 0) = (b >= 0) THEN a < b ELSE a >= 0
U64Gt(a, b) == U64Lt(b, a)
U64Ge(a, b) == ~U64Lt(a, b)

\* ------------------------------------------------------- 64-bit words
\* The value a read delivers is kept exactly, as the set of the positions
\* (0..63) of its one bits; a signed value is in two's complement.
Word == 0..63
And(a, b) == a \cap b
Xor(a, b) == (a \ b) \cup (b \ a)
Not(a) == Word \ a
Shr(a, n) == {i - n : i \in {k \in a : k >= n}}
Shl(a, n) == {i + n : i \in {k \in a : k + n <= 63}}

\* a + 1 modulo 2^64
Inc(a) ==
    IF a = Word THEN {}
    ELSE LET Carry(k) == (a \ (0..k)) \cup {k}
         IN Carry(CHOOSE k \in Word \ a : \A j \in Word \ a : k <= j)

\* the bits of the byte b
ByteBits(b) == {j \in 0..7 : (b \div (2 ^ j)) % 2 = 1}

\* static_cast<UInt64>(c) of the char c, sign-extended for c >= 0x80
CharBits(b) == IF b >= 128 THEN ByteBits(b) \cup (8..63) ELSE ByteBits(b)

\* the helper without its mask
VarintReadHelper_Unmasked(result, c, i) == result \cup Shl(CharBits(c), 7 * i)

\* PROTOBUF_READER_VARINT_READ_HELPER(i) on the byte c: result |= c << 7i,
\* then, when the varint goes on and i < 8, the mask 0x80 << 7i - 1
VarintReadHelper(result, c, i) ==
    LET Masked(ored) == IF i < 8 /\ c >= 128 THEN And(ored, 0..(7 * i + 6)) ELSE ored
    IN Masked(result \cup Shl(CharBits(c), 7 * i))

\* the helpers 0..9 in a row on the varint at data[from+1 ..] that
\* readVarint accepts
RECURSIVE VarintBits(_, _, _, _)
VarintBits(data, from, i, result) ==
    LET Helper(c) ==
            IF i < 9 /\ c >= 128
            THEN VarintBits(data, from, i + 1, VarintReadHelper(result, c, i))
            ELSE VarintReadHelper(result, c, i)
    IN Helper(data[from + i + 1])

\* the little-endian value of the bytes
FixedBits(bytes) == UNION {Shl(ByteBits(bytes[i]), 8 * (i - 1)) : i \in 1..Len(bytes)}

\* the natural number of a word of at most 30 bits
RECURSIVE SumOfBits(_)
SumOfBits(w) ==
    IF w = {} THEN 0
    ELSE LET Top(k) == 2 ^ k + SumOfBits(w \ {k})
         IN Top(CHOOSE k \in w : \A j \in w : j <= k)

\* ------------------------------------------------------------ byte stream
\* ReadBuffer: data is the whole stream, pos the number of bytes consumed,
\* buf the stream position at which the current in-memory buffer starts.
InEof(s) == s.pos >= Len(s.data)

\* eof() loads the next buffer when the current one is used up
InNext(s) ==
    IF s.pos = s.buf + BufSize /\ s.pos < Len(s.data)
    THEN [s EXCEPT !.buf = s.pos] ELSE s

InOffset(s) == s.pos - s.buf

InAdvance(s, n) ==
    IF n = 0 THEN s
    ELSE IF n < 0 \/ s.pos + n > Len(s.data)
    THEN [s EXCEPT !.pos = Len(s.data), !.err = "IO"]
    ELSE [s EXCEPT !.pos = s.pos + n,
                   !.buf = IF s.pos + n > s.buf + BufSize
                           THEN BufSize * ((s.pos + n - 1) \div BufSize)
                           ELSE s.buf]

InReadStrict(s, n) == InAdvance(s, n)
InIgnore(s, n) == InAdvance(s, n)
InRewind(s, n) == [s EXCEPT !.pos = s.pos - n]

\* ------------------------------------------------------------ SimpleReader
unknownFormat(s) == [s EXCEPT !.err = "UnknownFormat"]

readBinary(s, size) ==
    LET Done(t) == IF t.err # "none" THEN t ELSE [t EXCEPT !.cursor = s.cursor + size]
    IN Done(InReadStrict(s, size))

ignore(s, num_bytes) ==
    LET Done(t) == IF t.err # "none" THEN t ELSE [t EXCEPT !.cursor = s.cursor + num_bytes]
    IN Done(InIgnore(s, num_bytes))

\* moveCursorBackward without the test of the buffer offset
moveCursorBackward_Unchecked(s, num_bytes) ==
    [InRewind(s, num_bytes) EXCEPT !.cursor = s.cursor - num_bytes]

moveCursorBackward(s, num_bytes) ==
    IF U64Lt(InOffset(s), num_bytes)
    THEN unknownFormat(s)
    ELSE [InRewind(s, num_bytes) EXCEPT !.cursor = s.cursor - num_bytes]

\* A varint carries up to 64 bits.  Values below 2^28 and values of at least
\* 2^64 - 2^28 are kept exactly (the latter as negative representatives).
\* A value in between is far beyond every stream position that occurs; it is
\* kept as Mid + (value mod 8) + 8 * (1 if value >= 2^32 else 0), which
\* preserves its wire-type bits, its order against the exact values and the
\* test of its upper 32 bits.
Mid == 2 ^ 28

\* the 7-bit digit of the byte at index i (0-based) of the varint at from
Digit(data, from, i) == data[from + i + 1] % 128

RECURSIVE DigitSum(_, _, _)
DigitSum(data, from, n) ==
    IF n = 0 THEN 0
    ELSE DigitSum(data, from, n - 1) + Digit(data, from, n - 1) * (2 ^ (7 * (n - 1)))

RECURSIVE ComplSum(_, _, _)
ComplSum(data, from, n) ==
    IF n = 0 THEN 0
    ELSE ComplSum(data, from, n - 1) + (127 - Digit(data, from, n - 1)) * (2 ^ (7 * (n - 1)))

\* index (0..9) of the byte at which the varint scan stops, 10 if ten bytes
\* were read without a terminator, -1 if the stream ends first
RECURSIVE VarintStop(_, _, _)
VarintStop(data, from, i) ==
    IF from + i >= Len(data) THEN -1
    ELSE IF i < 9
         THEN IF data[from + i + 1] < 128 THEN i ELSE VarintStop(data, from, i + 1)
         ELSE IF data[from + i + 1] = 1 THEN 9 ELSE 10

Min(a, b) == IF a < b THEN a ELSE b

\* value of the n-byte varint at data[from+1 ..]; the tenth byte is 1 and
\* sets bit 63
VarintValue(data, from, n) ==
    IF \A i \in 4..(n - 1) : Digit(data, from, i) = 0
    THEN DigitSum(data, from, Min(n, 4))
    ELSE IF n = 10 /\ \A i \in 4..8 : Digit(data, from, i) = 127
    THEN -1 - ComplSum(data, from, 4)
    ELSE Mid + (Digit(data, from, 0) % 8)
         + (IF Digit(data, from, 4) >= 16 \/ \E i \in 5..(n - 1) : Digit(data, from, i) # 0
            THEN 8 ELSE 0)

\* readVarint that takes any tenth byte for the end of the varint
readVarint_AnyTenthByte(s) ==
    LET Read(stop) ==
            IF stop = -1
            THEN [st |-> [s EXCEPT !.pos = Len(s.data), !.err = "IO"], value |-> 0]
            ELSE IF stop = 10
            THEN [st |-> [InReadStrict(s, 10) EXCEPT !.cursor = s.cursor + 10], value |-> -1]
            ELSE [st |-> [InReadStrict(s, stop + 1) EXCEPT !.cursor = s.cursor + stop + 1],
                  value |-> VarintValue(s.data, s.pos, stop + 1)]
    IN Read(VarintStop(s.data, s.pos, 0))

readVarint(s) ==
    LET Read(stop) ==
            IF stop = -1
            THEN [st |-> [s EXCEPT !.pos = Len(s.data), !.err = "IO"], value |-> 0]
            ELSE IF stop = 10
            THEN [st |-> unknownFormat(InReadStrict(s, 10)), value |-> 0]
            ELSE [st |-> [InReadStrict(s, stop + 1) EXCEPT !.cursor = s.cursor + stop + 1],
                  value |-> VarintValue(s.data, s.pos, stop + 1)]
    IN Read(VarintStop(s.data, s.pos, 0))

\* PROTOBUF_READER_VARINT_IGNORE_HELPER(i): the number of bytes after which
\* the helpers 0..9 return, 10 if none does, -1 if the stream ends first
RECURSIVE IgnoreHelper(_, _, _)
IgnoreHelper(data, from, i) ==
    IF i > 9 THEN 10
    ELSE IF from + i >= Len(data) THEN -1
    ELSE IF (i < 9 /\ data[from + i + 1] < 128) \/ (i = 9 /\ data[from + i + 1] = 1)
    THEN i
    ELSE IgnoreHelper(data, from, i + 1)

\* ignoreVarint that takes any tenth byte for the end of the varint
ignoreVarint_AnyTenthByte(s) ==
    LET Skip(stop) ==
            IF stop = -1
            THEN [s EXCEPT !.pos = Len(s.data), !.err = "IO"]
            ELSE IF stop = 10
            THEN [InReadStrict(s, 10) EXCEPT !.cursor = s.cursor + 10]
            ELSE [InReadStrict(s, stop + 1) EXCEPT !.cursor = s.cursor + stop + 1]
    IN Skip(IgnoreHelper(s.data, s.pos, 0))

ignoreVarint(s) ==
    LET Skip(stop) ==
            IF stop = -1
            THEN [s EXCEPT !.pos = Len(s.data), !.err = "IO"]
            ELSE IF stop = 10
            THEN unknownFormat(InReadStrict(s, 10))
            ELSE [InReadStrict(s, stop + 1) EXCEPT !.cursor = s.cursor + stop + 1]
    IN Skip(IgnoreHelper(s.data, s.pos, 0))

\* one pass of the loop body of ignoreGroup: after the switch every case that
\* does not return runs into unknownFormat()
ignoreGroup(s) ==
    LET Length(l) == IF l.st.err # "none" THEN l.st ELSE ignore(l.st, l.value)
        Switch(t, wire_type) ==
            CASE wire_type = VARINT -> ignoreVarint(t)
              [] wire_type = BITS64 -> ignore(t, 8)
              [] wire_type = LENGTH_DELIMITED -> Length(readVarint(t))
              [] wire_type = BITS32 -> ignore(t, 4)
              [] OTHER -> t
        AfterSwitch(u) == IF u.err # "none" THEN u ELSE unknownFormat(u)
        Key(r) ==
            IF r.st.err # "none" THEN r.st
            ELSE IF r.value % 8 = GROUP_END THEN r.st
            ELSE AfterSwitch(Switch(r.st, r.value % 8))
    IN Key(readVarint(s))

\* the test of the upper 32 bits left out
HighBitsSet_Never(v) == FALSE

\* varint & (0xFFFFFFFF << 32): some bit of the upper 32 is set
HighBitsSet(v) == v < 0 \/ (v >= Mid /\ ((v - Mid) \div 8) % 2 = 1)

\* startMessage that opens a nested frame without pushing the parent's end
startMessage_NoPush(s) ==
    LET Size(r) ==
            IF r.st.err # "none" THEN [st |-> r.st, ret |-> FALSE]
            ELSE [st |-> [r.st EXCEPT !.current_message_end = r.st.cursor + r.value,
                                      !.field_end = REACHED_END],
                  ret |-> TRUE]
        Root(e) == IF InEof(e) THEN [st |-> e, ret |-> FALSE] ELSE Size(readVarint(e))
    IN IF s.current_message_end = REACHED_END /\ s.parent_message_ends = <<>>
       THEN Root(InNext(s))
       ELSE [st |-> [s EXCEPT !.current_message_end = s.field_end,
                              !.field_end = REACHED_END],
             ret |-> TRUE]

startMessage(s) ==
    LET Size(r) ==
            IF r.st.err # "none" THEN [st |-> r.st, ret |-> FALSE]
            ELSE [st |-> [r.st EXCEPT !.current_message_end = r.st.cursor + r.value,
                                      !.field_end = REACHED_END],
                  ret |-> TRUE]
        Root(e) == IF InEof(e) THEN [st |-> e, ret |-> FALSE] ELSE Size(readVarint(e))
    IN IF s.current_message_end = REACHED_END /\ s.parent_message_ends = <<>>
       THEN Root(InNext(s))
       ELSE [st |-> [s EXCEPT !.parent_message_ends = Append(s.parent_message_ends, s.current_message_end),
                              !.current_message_end = s.field_end,
                              !.field_end = REACHED_END],
             ret |-> TRUE]

\* endMessage that leaves the parent stack as it is
endMessage_NoPop(s) ==
    LET Closed(b) == IF b.err # "none" THEN b
                     ELSE [b EXCEPT !.current_message_end = REACHED_END]
        Pop(a) ==
            IF a.err # "none" THEN a
            ELSE [a EXCEPT !.field_end = REACHED_END]
    IN Pop(IF s.current_message_end # REACHED_END
           THEN Closed(IF s.current_message_end = END_OF_GROUP
                       THEN ignoreGroup(s)
                       ELSE IF U64Lt(s.cursor, s.current_message_end)
                       THEN ignore(s, s.current_message_end - s.cursor)
                       ELSE IF U64Gt(s.cursor, s.current_message_end)
                       THEN IF s.parent_message_ends # <<>>
                            THEN unknownFormat(s)
                            ELSE moveCursorBackward(s, s.cursor - s.current_message_end)
                       ELSE s)
           ELSE s)

\* endMessage with the test of the parent stack inverted: an overshot root
\* frame raises, an overshot nested frame is rewound
endMessage_RootRaises(s) ==
    LET Closed(b) == IF b.err # "none" THEN b
                     ELSE [b EXCEPT !.current_message_end = REACHED_END]
        Pop(a) ==
            IF a.err # "none" THEN a
            ELSE IF a.parent_message_ends # <<>>
            THEN [a EXCEPT !.field_end = REACHED_END,
                           !.current_message_end = a.parent_message_ends[Len(a.parent_message_ends)],
                           !.parent_message_ends = SubSeq(a.parent_message_ends, 1, Len(a.parent_message_ends) - 1)]
            ELSE [a EXCEPT !.field_end = REACHED_END]
    IN Pop(IF s.current_message_end # REACHED_END
           THEN Closed(IF s.current_message_end = END_OF_GROUP
                       THEN ignoreGroup(s)
                       ELSE IF U64Lt(s.cursor, s.current_message_end)
                       THEN ignore(s, s.current_message_end - s.cursor)
                       ELSE IF U64Gt(s.cursor, s.current_message_end)
                       THEN IF s.parent_message_ends = <<>>
                            THEN unknownFormat(s)
                            ELSE moveCursorBackward(s, s.cursor - s.current_message_end)
                       ELSE s)
           ELSE s)

endMessage(s) ==
    LET Closed(b) == IF b.err # "none" THEN b
                     ELSE [b EXCEPT !.current_message_end = REACHED_END]
        Pop(a) ==
            IF a.err # "none" THEN a
            ELSE IF a.parent_message_ends # <<>>
            THEN [a EXCEPT !.field_end = REACHED_END,
                           !.current_message_end = a.parent_message_ends[Len(a.parent_message_ends)],
                           !.parent_message_ends = SubSeq(a.parent_message_ends, 1, Len(a.parent_message_ends) - 1)]
            ELSE [a EXCEPT !.field_end = REACHED_END]
    IN Pop(IF s.current_message_end # REACHED_END
           THEN Closed(IF s.current_message_end = END_OF_GROUP
                       THEN ignoreGroup(s)
                       ELSE IF U64Lt(s.cursor, s.current_message_end)
                       THEN ignore(s, s.current_message_end - s.cursor)
                       ELSE IF U64Gt(s.cursor, s.current_message_end)
                       THEN IF s.parent_message_ends # <<>>
                            THEN unknownFormat(s)
                            ELSE moveCursorBackward(s, s.cursor - s.current_message_end)
                       ELSE s)
           ELSE s)

\* endRootMessage without the test for a frame that is closed already
endRootMessage_Unguarded(s) ==
    LET message_end == IF s.parent_message_ends = <<>> THEN s.current_message_end
                       ELSE s.parent_message_ends[1]
        Reset(a) ==
            IF a.err # "none" THEN a
            ELSE [a EXCEPT !.parent_message_ends = <<>>,
                           !.current_message_end = REACHED_END,
                           !.field_end = REACHED_END]
    IN Reset(IF TRUE
             THEN IF U64Lt(s.cursor, message_end) THEN ignore(s, message_end - s.cursor)
                  ELSE IF U64Gt(s.cursor, message_end)
                  THEN moveCursorBackward(s, s.cursor - message_end)
                  ELSE s
             ELSE s)

endRootMessage(s) ==
    LET message_end == IF s.parent_message_ends = <<>> THEN s.current_message_end
                       ELSE s.parent_message_ends[1]
        Reset(a) ==
            IF a.err # "none" THEN a
            ELSE [a EXCEPT !.parent_message_ends = <<>>,
                           !.current_message_end = REACHED_END,
                           !.field_end = REACHED_END]
    IN Reset(IF message_end # REACHED_END
             THEN IF U64Lt(s.cursor, message_end) THEN ignore(s, message_end - s.cursor)
                  ELSE IF U64Gt(s.cursor, message_end)
                  THEN moveCursorBackward(s, s.cursor - message_end)
                  ELSE s
             ELSE s)

\* static_cast<UInt32>(varint) >> 3: the bits 3..31 of the key
FieldNumberOf(key) == SumOfBits(And(Shr(key, 3), 0..28))

\* lines 123-132: dispose of a field that was left unread or partly read
disposeField(s) ==
    LET Done(a) == IF a.err # "none" THEN a ELSE [a EXCEPT !.field_end = REACHED_END]
    IN IF s.field_end # REACHED_END
       THEN Done(IF s.field_end = END_OF_VARINT THEN ignoreVarint(s)
                 ELSE IF s.field_end = END_OF_GROUP THEN ignoreGroup(s)
                 ELSE IF U64Lt(s.cursor, s.field_end) THEN ignore(s, s.field_end - s.cursor)
                 ELSE s)
       ELSE s

\* readFieldHeader that takes a GROUP_END tag for the end of any frame
readFieldHeader_AnyGroupEnd(s) ==
    LET Length(l, field_number) ==
            IF l.st.err # "none"
            THEN [st |-> l.st, ret |-> FALSE, field_number |-> 0]
            ELSE [st |-> [l.st EXCEPT !.field_end = l.st.cursor + l.value],
                  ret |-> TRUE, field_number |-> field_number]
        Tag(t, key) ==
            LET field_number == FieldNumberOf(VarintBits(s.data, s.pos, 0, {}))
                wire_type == key % 8
            IN IF t.err # "none" THEN [st |-> t, ret |-> FALSE, field_number |-> 0]
               ELSE IF HighBitsSet(key)
               THEN [st |-> unknownFormat(t), ret |-> FALSE, field_number |-> 0]
               ELSE CASE wire_type = BITS64 ->
                           [st |-> [t EXCEPT !.field_end = t.cursor + 8], ret |-> TRUE,
                            field_number |-> field_number]
                      [] wire_type = LENGTH_DELIMITED ->
                           Length(readVarint(t), field_number)
                      [] wire_type = VARINT ->
                           [st |-> [t EXCEPT !.field_end = END_OF_VARINT], ret |-> TRUE,
                            field_number |-> field_number]
                      [] wire_type = GROUP_START ->
                           [st |-> [t EXCEPT !.field_end = END_OF_GROUP], ret |-> TRUE,
                            field_number |-> field_number]
                      [] wire_type = GROUP_END ->
                           [st |-> [t EXCEPT !.current_message_end = REACHED_END],
                            ret |-> FALSE, field_number |-> 0]
                      [] wire_type = BITS32 ->
                           [st |-> [t EXCEPT !.field_end = t.cursor + 4], ret |-> TRUE,
                            field_number |-> field_number]
                      [] OTHER ->
                           [st |-> unknownFormat(t), ret |-> FALSE, field_number |-> 0]
        Key(r) == Tag(r.st, r.value)
    IN Key(readVarint(s))

\* readFieldHeader that takes the wire types 6 and 7 for fields without a value
readFieldHeader_AnyWireType(s) ==
    LET Length(l, field_number) ==
            IF l.st.err # "none"
            THEN [st |-> l.st, ret |-> FALSE, field_number |-> 0]
            ELSE [st |-> [l.st EXCEPT !.field_end = l.st.cursor + l.value],
                  ret |-> TRUE, field_number |-> field_number]
        Tag(t, key) ==
            LET field_number == FieldNumberOf(VarintBits(s.data, s.pos, 0, {}))
                wire_type == key % 8
            IN IF t.err # "none" THEN [st |-> t, ret |-> FALSE, field_number |-> 0]
               ELSE IF HighBitsSet(key)
               THEN [st |-> unknownFormat(t), ret |-> FALSE, field_number |-> 0]
               ELSE CASE wire_type = BITS64 ->
                           [st |-> [t EXCEPT !.field_end = t.cursor + 8], ret |-> TRUE,
                            field_number |-> field_number]
                      [] wire_type = LENGTH_DELIMITED ->
                           Length(readVarint(t), field_number)
                      [] wire_type = VARINT ->
                           [st |-> [t EXCEPT !.field_end = END_OF_VARINT], ret |-> TRUE,
                            field_number |-> field_number]
                      [] wire_type = GROUP_START ->
                           [st |-> [t EXCEPT !.field_end = END_OF_GROUP], ret |-> TRUE,
                            field_number |-> field_number]
                      [] wire_type = GROUP_END ->
                           IF t.current_message_end # END_OF_GROUP
                           THEN [st |-> unknownFormat(t), ret |-> FALSE, field_number |-> 0]
                           ELSE [st |-> [t EXCEPT !.current_message_end = REACHED_END],
                                 ret |-> FALSE, field_number |-> 0]
                      [] wire_type = BITS32 ->
                           [st |-> [t EXCEPT !.field_end = t.cursor + 4], ret |-> TRUE,
                            field_number |-> field_number]
                      [] OTHER ->
                           [st |-> [t EXCEPT !.field_end = REACHED_END], ret |-> TRUE,
                            field_number |-> field_number]
        Key(r) == Tag(r.st, r.value)
    IN Key(readVarint(s))

\* lines 140-183: read the tag key and set field_end by wire type
readFieldHeader(s) ==
    LET Length(l, field_number) ==
            IF l.st.err # "none"
            THEN [st |-> l.st, ret |-> FALSE, field_number |-> 0]
            ELSE [st |-> [l.st EXCEPT !.field_end = l.st.cursor + l.value],
                  ret |-> TRUE, field_number |-> field_number]
        Tag(t, key) ==
            LET field_number == FieldNumberOf(VarintBits(s.data, s.pos, 0, {}))
                wire_type == key % 8
            IN IF t.err # "none" THEN [st |-> t, ret |-> FALSE, field_number |-> 0]
               ELSE IF HighBitsSet(key)
               THEN [st |-> unknownFormat(t), ret |-> FALSE, field_number |-> 0]
               ELSE CASE wire_type = BITS64 ->
                           [st |-> [t EXCEPT !.field_end = t.cursor + 8], ret |-> TRUE,
                            field_number |-> field_number]
                      [] wire_type = LENGTH_DELIMITED ->
                           Length(readVarint(t), field_number)
                      [] wire_type = VARINT ->
                           [st |-> [t EXCEPT !.field_end = END_OF_VARINT], ret |-> TRUE,
                            field_number |-> field_number]
                      [] wire_type = GROUP_START ->
                           [st |-> [t EXCEPT !.field_end = END_OF_GROUP], ret |-> TRUE,
                            field_number |-> field_number]
                      [] wire_type = GROUP_END ->
                           IF t.current_message_end # END_OF_GROUP
                           THEN [st |-> unknownFormat(t), ret |-> FALSE, field_number |-> 0]
                           ELSE [st |-> [t EXCEPT !.current_message_end = REACHED_END],
                                 ret |-> FALSE, field_number |-> 0]
                      [] wire_type = BITS32 ->
                           [st |-> [t EXCEPT !.field_end = t.cursor + 4], ret |-> TRUE,
                            field_number |-> field_number]
                      [] OTHER ->
                           [st |-> unknownFormat(t), ret |-> FALSE, field_number |-> 0]
        Key(r) == Tag(r.st, r.value)
    IN Key(readVarint(s))

readFieldNumber(s) ==
    LET Header(a) ==
            IF a.err # "none" THEN [st |-> a, ret |-> FALSE, field_number |-> 0]
            ELSE IF U64Ge(a.cursor, a.current_message_end)
            THEN [st |-> [a EXCEPT !.current_message_end = REACHED_END],
                  ret |-> FALSE, field_number |-> 0]
            ELSE readFieldHeader(a)
    IN Header(disposeField(s))

\* readUInt, and readInt / readSInt which differ only in the cast of the value
readUInt(s) ==
    LET Value(t, value) ==
            IF t.err # "none" THEN [st |-> t, ret |-> FALSE, value |-> 0]
            ELSE [st |-> IF t.field_end = END_OF_VARINT \/ U64Ge(t.cursor, t.field_end)
                         THEN [t EXCEPT !.field_end = REACHED_END] ELSE t,
                  ret |-> TRUE, value |-> value]
        Result(r) == Value(r.st, r.value)
    IN IF U64Ge(s.cursor, s.field_end)
       THEN [st |-> [s EXCEPT !.field_end = REACHED_END], ret |-> FALSE, value |-> 0]
       ELSE Result(readVarint(s))

\* the bytes data[from+1 .. from+n] of the stream
Bytes(data, from, n) == SubSeq(data, from + 1, from + n)

\* readFixed<T> with sizeof(T) = size; the value is kept as its bytes
readFixed(s, size) ==
    LET Done(t) ==
            IF t.err # "none" THEN [st |-> t, ret |-> FALSE, value |-> <<>>]
            ELSE [st |-> IF U64Ge(t.cursor, t.field_end)
                         THEN [t EXCEPT !.field_end = REACHED_END] ELSE t,
                  ret |-> TRUE, value |-> Bytes(s.data, s.pos, size)]
    IN IF U64Ge(s.cursor, s.field_end)
       THEN [st |-> [s EXCEPT !.field_end = REACHED_END], ret |-> FALSE, value |-> <<>>]
       ELSE Done(readBinary(s, size))

\* readStringInto without its last assignment: the field is not marked consumed
readStringInto_Unmarked(s) ==
    LET length == s.field_end - s.cursor
        Done(t) ==
            IF t.err # "none" THEN [st |-> t, ret |-> FALSE, value |-> <<>>]
            ELSE [st |-> t, ret |-> TRUE, value |-> Bytes(s.data, s.pos, length)]
    IN IF U64Gt(s.cursor, s.field_end)
       THEN [st |-> s, ret |-> FALSE, value |-> <<>>]
       ELSE Done(readBinary(s, length))

readStringInto(s) ==
    LET length == s.field_end - s.cursor
        Done(t) ==
            IF t.err # "none" THEN [st |-> t, ret |-> FALSE, value |-> <<>>]
            ELSE [st |-> [t EXCEPT !.field_end = REACHED_END],
                  ret |-> TRUE, value |-> Bytes(s.data, s.pos, length)]
    IN IF U64Gt(s.cursor, s.field_end)
       THEN [st |-> s, ret |-> FALSE, value |-> <<>>]
       ELSE Done(readBinary(s, length))

\* ----------------------------------------------------- values as words
\* decodeZigZag without the sign: n >> 1
decodeZigZag_Unsigned(n) == Shr(n, 1)

\* (n >> 1) ^ (~(n & 1) + 1)
decodeZigZag(n) == Xor(Shr(n, 1), Inc(Not(And(n, {0}))))

\* readUInt with the value as a word
readUIntWord(s) ==
    LET Done(r) ==
            [st |-> r.st, ret |-> r.ret,
             value |-> IF r.ret /\ r.st.err = "none" THEN VarintBits(s.data, s.pos, 0, {}) ELSE {}]
    IN Done(readUInt(s))

\* static_cast<Int64>(varint) keeps the bits
readInt(s) == readUIntWord(s)

readSInt(s) ==
    LET Done(r) == [st |-> r.st, ret |-> r.ret,
                    value |-> IF r.ret /\ r.st.err = "none" THEN decodeZigZag(r.value) ELSE {}]
    IN Done(readUIntWord(s))

\* readFixed with the value as a word
readFixedWord(s, size) ==
    LET Done(r) == [st |-> r.st, ret |-> r.ret,
                    value |-> IF r.ret /\ r.st.err = "none" THEN FixedBits(r.value) ELSE {}]
    IN Done(readFixed(s, size))

\* ------------------------------------------------------------------ input
\* Wire items of the streams that are explored.  k is the kind of item,
\* fn the field number, v the payload bytes, len the bytes of the length
\* varint, inner the items of a nested message or group.
Item(k, fn, v, len, inner) == [k |-> k, fn |-> fn, v |-> v, len |-> len, inner |-> inner]

WireTypeOf(k) ==
    CASE k = "V" -> VARINT
      [] k = "F8" -> BITS64
      [] k = "F4" -> BITS32
      [] k = "G" -> GROUP_START
      [] OTHER -> LENGTH_DELIMITED

KeyByte(fn, wt) == fn * 8 + wt

RECURSIVE EncodeItems(_)
EncodeItem(it) ==
    CASE it.k = "G" ->
           <<KeyByte(it.fn, GROUP_START)>> \o EncodeItems(it.inner) \o <<KeyByte(it.fn, GROUP_END)>>
      [] it.k = "M" ->
           <<KeyByte(it.fn, LENGTH_DELIMITED)>> \o it.len \o EncodeItems(it.inner)
      [] it.k = "LD" ->
           <<KeyByte(it.fn, LENGTH_DELIMITED)>> \o it.len \o it.v
      [] it.k = "RAW" ->
           it.v
      [] OTHER ->
           <<KeyByte(it.fn, WireTypeOf(it.k))>> \o it.v
EncodeItems(items) ==
    IF items = <<>> THEN <<>>
    ELSE EncodeItem(Head(items)) \o EncodeItems(Tail(items))

\* a nested message whose declared length is its real length plus delta
Msg(fn, inner, delta) == Item("M", fn, <<>>, <<Len(EncodeItems(inner)) + delta>>, inner)
Grp(fn, inner) == Item("G", fn, <<>>, <<>>, inner)
Str(fn, body, delta) == Item("LD", fn, body, <<Len(body) + delta>>, <<>>)

\* the ten bytes of the varint 2^64 - 3
HugeLen == <<253, 255, 255, 255, 255, 255, 255, 255, 255, 1>>

V1 == Item("V", 1, <<5>>, <<>>, <<>>)
U4 == Item("V", 4, <<1>>, <<>>, <<>>)
W4 == Item("V", 4, <<172, 2>>, <<>>, <<>>)
F1 == Item("F4", 1, <<120, 86, 52, 18>>, <<>>, <<>>)
B4 == Item("F8", 4, <<1, 2, 3, 4, 5, 6, 7, 8>>, <<>>, <<>>)
S3 == Str(3, <<97>>, 0)
E3 == Str(3, <<>>, 0)
P1 == Str(1, <<1, 2>>, 0)
L3 == Str(3, <<97>>, 2)
H4 == Item("LD", 4, <<>>, HugeLen, <<>>)

\* field 4 (VARINT) with a varint of ten bytes whose tenth byte is not 1
BadTenth == Item("RAW", 0, <<32, 255, 255, 255, 255, 255, 255, 255, 255, 255, 2>>, <<>>, <<>>)
\* tag keys 2^32 and 2^32 - 8 (wire type VARINT), each followed by a value
Key32 == Item("RAW", 0, <<128, 128, 128, 128, 16, 1>>, <<>>, <<>>)
KeyMax == Item("RAW", 0, <<248, 255, 255, 255, 15, 1>>, <<>>, <<>>)
\* a GROUP_END tag of field 4 that closes no group
EndGroup4 == Item("RAW", 0, <<36>>, <<>>, <<>>)
\* field 1 with the value 300
Big1 == Item("V", 1, <<172, 2>>, <<>>, <<>>)
\* field 5, an enum, with the numbers 1, 2 and 7
Enum1 == Item("V", 5, <<1>>, <<>>, <<>>)
Enum2 == Item("V", 5, <<2>>, <<>>, <<>>)
Enum7 == Item("V", 5, <<7>>, <<>>, <<>>)
\* field 6, a sint64, with the ZigZag codes 3 and 2^64 - 3
SInt3 == Item("V", 6, <<3>>, <<>>, <<>>)
SIntHuge == Item("V", 6, HugeLen, <<>>, <<>>)

\* field 2, a nested message in the schema, sent as a varint
V2 == Item("V", 2, <<5>>, <<>>, <<>>)
\* field 1, length-delimited, whose one byte begins a varint that does not
\* end in the field
Cut1 == Str(1, <<172>>, 0)
\* tags of field 4 with the wire types 6 and 7
Wire6 == Item("RAW", 0, <<38>>, <<>>, <<>>)
Wire7 == Item("RAW", 0, <<39>>, <<>>, <<>>)

\* items of which a message may hold several
PlainItems == {V1, U4, S3}

\* items of which a message holds at most one
SpecialItems ==
    {W4, F1, B4, E3, P1, L3, H4}
    \cup {Msg(2, <<F1>>, 0), Msg(2, <<Msg(2, <<V1>>, 0)>>, 0), Msg(2, <<F1>>, 2),
          Msg(2, <<Msg(2, <<V1>>, 2)>>, 0)}
    \cup {Grp(4, <<>>), Grp(4, <<U4>>), Grp(4, <<Grp(4, <<>>)>>), Grp(2, <<F1>>)}
    \cup {BadTenth, Key32, KeyMax, EndGroup4, Big1, Enum1, Enum2, Enum7, SInt3, SIntHuge}
    \cup {V2, Cut1, Wire6, Wire7}

RECURSIVE SeqsUpTo(_, _)
SeqsUpTo(S, n) ==
    IF n = 0 THEN {<<>>}
    ELSE LET shorter == SeqsUpTo(S, n - 1)
         IN shorter \cup {Append(q, x) : q \in shorter, x \in S}

\* q with x put in before its element at index i
InsertAt(q, i, x) == SubSeq(q, 1, i - 1) \o <<x>> \o SubSeq(q, i, Len(q))

ItemSeqs ==
    SeqsUpTo(PlainItems, MaxFields)
    \cup UNION {{InsertAt(q, i, x) : i \in 1..(Len(q) + 1), x \in SpecialItems} :
                    q \in SeqsUpTo(PlainItems, MaxFields - 1)}

\* a root message: its items and the error of its length prefix
RootMessages == {[items |-> q, delta |-> 0] : q \in ItemSeqs}

\* the stream ends after the first message, or a second message follows a
\* first message of at most one item
SecondMessage == [items |-> <<F1>>, delta |-> 0]

Inputs ==
    {<<m>> : m \in RootMessages}
    \cup {<<m, SecondMessage>> : m \in {r \in RootMessages : Len(r.items) <= 1}}

EncodeMessage(m) == <<Len(EncodeItems(m.items)) + m.delta>> \o EncodeItems(m.items)

RECURSIVE EncodeStream(_)
EncodeStream(ms) ==
    IF ms = <<>> THEN <<>>
    ELSE EncodeMessage(Head(ms)) \o EncodeStream(Tail(ms))

\* ----------------------------------------------------------------- schema
\* The Message tree built by matchColumns: fields sorted by field_number,
\* a field is a leaf (column_index, type) or a container (nested_message).
\* Indices are 0-based as in the source.
Leaf(fn, col, type) ==
    [field_number |-> fn, column_index |-> col, nested_message |-> "null", type |-> type]
Container(fn, msg) ==
    [field_number |-> fn, column_index |-> -1, nested_message |-> msg, type |-> "TYPE_MESSAGE"]

Schema ==
    [root |-> [parent |-> "null", index_in_parent |-> 0,
               fields |-> <<Leaf(1, 0, "TYPE_UINT64"), Container(2, "N"), Leaf(3, 1, "TYPE_STRING"),
                            Leaf(5, 4, "TYPE_ENUM"), Leaf(6, 5, "TYPE_SINT64")>>],
     N |-> [parent |-> "root", index_in_parent |-> 1,
            fields |-> <<Leaf(1, 2, "TYPE_FIXED32"), Container(2, "NN")>>],
     NN |-> [parent |-> "N", index_in_parent |-> 1,
             fields |-> <<Leaf(1, 3, "TYPE_UINT64")>>]]

\* setTraitsDataAfterMatchingColumns: a container field takes the `continue`
\* before the emplace, so only leaf fields enter the map
MapEntries(message) ==
    {i \in 1..Len(Schema[message].fields) : Schema[message].fields[i].nested_message = "null"}

field_number_to_field_map(message) ==
    [n \in {Schema[message].fields[i].field_number : i \in MapEntries(message)} |->
        CHOOSE i \in MapEntries(message) : Schema[message].fields[i].field_number = n]

\* lines 1116-1126: the linear advance of current_field_index
RECURSIVE LinearAdvance(_, _, _)
LinearAdvance(fields, index, field_number) ==
    IF index < Len(fields)
    THEN IF fields[index + 1].field_number = field_number THEN index
         ELSE IF fields[index + 1].field_number > field_number THEN index
         ELSE LinearAdvance(fields, index + 1, field_number)
    ELSE index

\* lines 1115-1135: index+1 of the located field in fields, 0 when not located
LocateField(message, index, field_number) ==
    LET fields == Schema[message].fields
        map == field_number_to_field_map(message)
    IN IF index < Len(fields) /\ fields[index + 1].field_number = field_number
       THEN index + 1
       ELSE IF field_number \in DOMAIN map THEN map[field_number] ELSE 0

\* d: [st, current_message, current_field_index, current_converter,
\*     column_index, ret, trail]
\* trail holds one entry per iteration of the loop: what the iteration did,
\* the message, current_field_index, the height of the parent stack and the
\* stream position at its start, the stream position and the height of the stack at its end,
\* and the field_end that startMessage was called with
RECURSIVE readColumnIndex(_)
readColumnIndex(d) ==
    LET m == Schema[d.current_message]
        Iteration(kind, a, fe) ==
            Append(d.trail, [kind |-> kind, message |-> d.current_message,
                             index |-> d.current_field_index,
                             stack |-> Len(d.st.parent_message_ends), pos |-> d.st.pos,
                             after |-> a.pos, after_stack |-> Len(a.parent_message_ends),
                             field_end |-> fe])
        Up(e) ==
            IF e.err # "none"
            THEN [d EXCEPT !.st = e, !.ret = FALSE, !.trail = Iteration("raise", e, 0)]
            ELSE readColumnIndex([d EXCEPT !.st = e,
                                           !.current_field_index = m.index_in_parent,
                                           !.current_message = m.parent,
                                           !.trail = Iteration("up", e, 0)])
        Down(t, at, n) ==
            readColumnIndex([d EXCEPT !.st = n,
                                      !.current_message = m.fields[at].nested_message,
                                      !.current_field_index = 0,
                                      !.trail = Iteration("down", n, t.field_end)])
        Found(t, index, at) ==
            IF at = 0
            THEN readColumnIndex([d EXCEPT !.st = t, !.current_field_index = index,
                                           !.trail = Iteration("skip", t, 0)])
            ELSE IF m.fields[at].nested_message # "null"
            THEN Down(t, at, startMessage(t).st)
            ELSE [d EXCEPT !.st = t, !.current_field_index = index,
                           !.column_index = m.fields[at].column_index,
                           !.current_converter = m.fields[at].type,
                           !.ret = TRUE, !.trail = Iteration("yield", t, 0)]
        Advanced(t, index, field_number) ==
            Found(t, index, LocateField(d.current_message, index, field_number))
        Field(r) ==
            IF r.st.err # "none"
            THEN [d EXCEPT !.st = r.st, !.ret = FALSE, !.trail = Iteration("raise", r.st, 0)]
            ELSE IF ~r.ret
            THEN IF m.parent = "null"
                 THEN [d EXCEPT !.st = r.st, !.current_converter = "null", !.ret = FALSE,
                                !.trail = Iteration("finish", r.st, 0)]
                 ELSE Up(endMessage(r.st))
            ELSE Advanced(r.st, LinearAdvance(m.fields, d.current_field_index, r.field_number),
                          r.field_number)
    IN Field(readFieldNumber(d.st))

\* ------------------------------------------------------------ converters
\* The caller's output object: a number (a word), or a byte buffer with its
\* bytes and its size.  Every call is handed an empty one.
Blank == [num |-> {}, str |-> <<>>, size |-> 0]
Number(v) == [num |-> v, str |-> <<>>, size |-> 0]
Text(bytes) == [num |-> {}, str |-> bytes, size |-> Len(bytes)]

\* the word of the natural number n
RECURSIVE WordOf(_)
WordOf(n) == IF n = 0 THEN {} ELSE (IF n % 2 = 1 THEN {0} ELSE {}) \cup Shl(WordOf(n \div 2), 1)

\* what readStringInto leaves in the buffer str: it is resized before the
\* bytes are read, so when the read raises, the size has grown already
\* (a length of 2^63 or more is taken to be refused by the allocation,
\* which leaves the buffer as it was)
readStringIntoBuffer(s) ==
    LET Done(r) ==
            [st |-> r.st, ret |-> r.ret,
             value |-> IF U64Gt(s.cursor, s.field_end) \/ s.field_end - s.cursor < 0
                       THEN Blank
                       ELSE IF r.st.err # "none"
                       THEN [num |-> {}, str |-> <<>>, size |-> s.field_end - s.cursor]
                       ELSE Text(r.value)]
    IN Done(readStringInto(s))

cannotConvertValue(s) == [s EXCEPT !.err = "BadCast"]

IsSigned(type) == type \in {"Int8", "Int16", "Int32", "Int64"}
WidthOf(type) ==
    CASE type \in {"Int8", "UInt8"} -> 8
      [] type \in {"Int16", "UInt16"} -> 16
      [] type \in {"Int32", "UInt32"} -> 32
      [] OTHER -> 64

\* boost::numeric_cast<To>(value) does not throw: the value of the From
\* word lies in the range of To
InRangeOf(To, From, value) ==
    LET negative == IsSigned(From) /\ 63 \in value
        high == IF IsSigned(To) THEN (WidthOf(To) - 1)..63 ELSE WidthOf(To)..63
    IN IF negative THEN IsSigned(To) /\ high \subseteq value
       ELSE value \cap high = {}

\* numericCast as a static_cast: no range check
numericCast_Unchecked(To, From, value) == [ok |-> TRUE, value |-> value]

\* [ok, value]: the cast value, or the bad_numeric_cast
numericCast(To, From, value) ==
    IF To = From THEN [ok |-> TRUE, value |-> value]
    ELSE IF InRangeOf(To, From, value) THEN [ok |-> TRUE, value |-> value]
    ELSE [ok |-> FALSE, value |-> {}]

\* ConverterImpl<field_type_id>: the native type T of the field type
NativeType(type) ==
    CASE type = "TYPE_UINT64" -> "UInt64"
      [] type = "TYPE_SINT64" -> "Int64"
      [] type = "TYPE_FIXED32" -> "UInt32"
      [] OTHER -> "Int64"

\* ConverterFromNumber::readField
readField(type, s) ==
    CASE type = "TYPE_UINT64" -> readUIntWord(s)
      [] type = "TYPE_SINT64" -> readSInt(s)
      [] OTHER -> readFixedWord(s, 4)

\* the result of a converter call: scanner, return value, caller's output
Delivered(st, ret, out) == [st |-> st, ret |-> ret, value |-> out]

\* ConverterFromNumber::readNumeric<To>
readNumeric(type, To, s) ==
    LET Cast(r, c) ==
            IF c.ok THEN Delivered(r.st, TRUE, Number(c.value))
            ELSE Delivered(cannotConvertValue(r.st), FALSE, Blank)
        Field(r) ==
            IF r.st.err # "none" \/ ~r.ret THEN Delivered(r.st, FALSE, Blank)
            ELSE Cast(r, numericCast(To, NativeType(type), r.value))
    IN Field(readField(type, s))

\* the enum type of field 5 as its descriptor gives it: number -> name
EnumDescriptor == [n \in {1, 2} |-> IF n = 1 THEN <<65>> ELSE <<66>>]

\* the (name, value) pairs of the target enum type that the caller supplies
NameValuePairs == <<[name |-> <<65>>, value |-> 10], [name |-> <<67>>, value |-> 5]>>

\* prepareSetOfEnumValues
set_of_enum_values == {WordOf(NameValuePairs[i].value) : i \in 1..Len(NameValuePairs)}

\* ConverterFromNumber::readEnum: the value is assigned before the set is asked
readEnum(type, s) ==
    LET Cast(r, c) ==
            IF ~c.ok THEN Delivered(cannotConvertValue(r.st), FALSE, Blank)
            ELSE IF c.value \notin set_of_enum_values
            THEN Delivered(cannotConvertValue(r.st), FALSE, Number(c.value))
            ELSE Delivered(r.st, TRUE, Number(c.value))
        Field(r) ==
            IF r.st.err # "none" \/ ~r.ret THEN Delivered(r.st, FALSE, Blank)
            ELSE Cast(r, numericCast("Int8", NativeType(type), r.value))
    IN Field(readField(type, s))

\* prepareEnumPbNumberToNameMap: word of the number -> name
enum_pbnumber_to_name_map ==
    [w \in {WordOf(n) : n \in DOMAIN EnumDescriptor} |->
        EnumDescriptor[CHOOSE n \in DOMAIN EnumDescriptor : WordOf(n) = w]]

\* FindValueByName: the numbers of the descriptor with this name
FindValueByName(name) == {n \in DOMAIN EnumDescriptor : EnumDescriptor[n] = name}

\* prepareEnumPbNumberToValueMap: word of the number -> word of the target
\* value, for the pairs whose name the descriptor knows
enum_pbnumber_to_value_map ==
    LET known == {i \in 1..Len(NameValuePairs) : FindValueByName(NameValuePairs[i].name) # {}}
        NumberOf(i) == CHOOSE n \in FindValueByName(NameValuePairs[i].name) : TRUE
    IN [w \in {WordOf(NumberOf(i)) : i \in known} |->
           WordOf(NameValuePairs[CHOOSE i \in known : WordOf(NumberOf(i)) = w].value)]

\* ConverterImpl<TYPE_ENUM>::readStringInto
enumReadStringInto(s) ==
    LET Field(r) ==
            IF r.st.err # "none" \/ ~r.ret THEN Delivered(r.st, FALSE, Blank)
            ELSE IF r.value \notin DOMAIN enum_pbnumber_to_name_map
            THEN Delivered(cannotConvertValue(r.st), FALSE, Blank)
            ELSE Delivered(r.st, TRUE, Text(enum_pbnumber_to_name_map[r.value]))
    IN Field(readInt(s))

\* ConverterImpl<TYPE_ENUM>::readNumeric<T>
enumReadNumeric(To, s) ==
    LET Cast(r, c) ==
            IF c.ok THEN Delivered(r.st, TRUE, Number(c.value))
            ELSE Delivered(cannotConvertValue(r.st), FALSE, Blank)
        Field(r) ==
            IF r.st.err # "none" \/ ~r.ret THEN Delivered(r.st, FALSE, Blank)
            ELSE Cast(r, numericCast(To, "Int64", r.value))
    IN Field(readInt(s))

\* readEnum that delivers the wire number itself
enumReadEnum_Unmapped(s) ==
    LET Field(r) ==
            IF r.st.err # "none" \/ ~r.ret THEN Delivered(r.st, FALSE, Blank)
            ELSE Delivered(r.st, TRUE, Number(r.value))
    IN Field(readInt(s))

\* ConverterImpl<TYPE_ENUM>::readEnum<T>
enumReadEnum(s) ==
    LET Field(r) ==
            IF r.st.err # "none" \/ ~r.ret THEN Delivered(r.st, FALSE, Blank)
            ELSE IF r.value \notin DOMAIN enum_pbnumber_to_value_map
            THEN Delivered(cannotConvertValue(r.st), FALSE, Blank)
            ELSE Delivered(r.st, TRUE, Number(enum_pbnumber_to_value_map[r.value]))
    IN Field(readInt(s))

\* the call the caller makes on current_converter for a column of the data
\* type target: readStringInto, readEnum8, or read<target>
ConverterRead(type, target, s) ==
    CASE type = "TYPE_STRING" -> readStringIntoBuffer(s)
      [] type = "TYPE_ENUM" ->
           (CASE target = "String" -> enumReadStringInto(s)
              [] target = "Enum8" -> enumReadEnum(s)
              [] OTHER -> enumReadNumeric(target, s))
      [] OTHER ->
           IF target = "Enum8" THEN readEnum(type, s) ELSE readNumeric(type, target, s)

\* the data types of the columns 0..5 that the caller reads into
DefaultColumns ==
    [c \in 0..5 |->
        CASE c = 0 -> "UInt64" [] c = 1 -> "String" [] c = 2 -> "UInt32"
          [] c = 3 -> "UInt64" [] c = 4 -> "Enum8" [] OTHER -> "Int64"]

ColumnSets ==
    {DefaultColumns}
    \cup {[DefaultColumns EXCEPT ![0] = x] : x \in {"UInt8", "Enum8"}}
    \cup {[DefaultColumns EXCEPT ![4] = x] : x \in {"String", "Int8"}}
    \cup {[DefaultColumns EXCEPT ![5] = x] : x \in {"UInt64", "Int8"}}

\* ------------------------------------------------------------------ state
VARIABLES
    input,                 \* the messages the stream was encoded from
    stream,                \* the bytes of the ReadBuffer `in`
    pos, bufStart,         \* ReadBuffer position and start of its current buffer
    cursor, current_message_end, field_end, parent_message_ends,
    current_message, current_field_index, current_converter,
    err,                   \* the exception that ended the run, or "none"
    mode,                  \* "simple": SimpleReader is driven directly,
                           \* "dispatch": through ProtobufReader
    root_end,              \* end of the open root message as startMessage computed it, 0 if none
    last,                  \* the last call: operation, result, scanner state before it
    emitted,               \* (column_index, value) pairs of the current row
    disciplined,           \* the caller has kept to the plain calling sequence so far
    columns                \* the data type of each column the caller reads into

vars == <<input, stream, pos, bufStart, cursor, current_message_end, field_end,
          parent_message_ends, current_message, current_field_index,
          current_converter, err, mode, root_end, last, emitted, disciplined, columns>>

\* the scanner and its stream as one record
Reader ==
    [data |-> stream, pos |-> pos, buf |-> bufStart, cursor |-> cursor,
     current_message_end |-> current_message_end, field_end |-> field_end,
     parent_message_ends |-> parent_message_ends, err |-> err]

Before ==
    [pos |-> pos, buf |-> bufStart, cursor |-> cursor,
     current_message_end |-> current_message_end, field_end |-> field_end,
     parent_message_ends |-> parent_message_ends, root_end |-> root_end]

SetReader(t) ==
    /\ pos' = t.pos
    /\ bufStart' = t.buf
    /\ cursor' = t.cursor
    /\ current_message_end' = t.current_message_end
    /\ field_end' = t.field_end
    /\ parent_message_ends' = t.parent_message_ends
    /\ err' = t.err

\* mid: the cursor between the two halves of readFieldNumber, 0 for other calls
\* prev: the call before it
Call(op, ret, arg, mid) ==
    [op |-> op, ret |-> ret, arg |-> arg, mid |-> mid,
     prev |-> [op |-> last.op, ret |-> last.ret], before |-> Before, out |-> Blank,
     trail |-> <<>>]

\* a typed read that reads the pending field and does not run past its end
StaysInField(op, t) ==
    \/ field_end = REACHED_END
    \/ field_end = END_OF_VARINT /\ op = "readUInt"
    \/ field_end \notin {END_OF_VARINT, END_OF_GROUP} /\ t.err = "none" /\ ~U64Gt(t.cursor, field_end)

\* SimpleReader::SimpleReader
NewReader(data) ==
    [data |-> data, pos |-> 0, buf |-> 0, cursor |-> 1,
     current_message_end |-> REACHED_END, field_end |-> REACHED_END,
     parent_message_ends |-> <<>>, err |-> "none"]

\* the constructor with cursor(0)
Init_CursorZero ==
    /\ input \in Inputs
    /\ stream = EncodeStream(input)
    /\ mode \in {"simple", "dispatch"}
    /\ pos = 0
    /\ bufStart = 0
    /\ cursor = 0
    /\ current_message_end = REACHED_END
    /\ field_end = REACHED_END
    /\ parent_message_ends = <<>>
    /\ current_message = "null"
    /\ current_field_index = 0
    /\ current_converter = "null"
    /\ err = "none"
    /\ root_end = 0
    /\ disciplined = TRUE
    /\ last = [op |-> "new", ret |-> TRUE, arg |-> 0, mid |-> 0,
               prev |-> [op |-> "new", ret |-> TRUE],
               before |-> [pos |-> 0, buf |-> 0, cursor |-> 1,
                           current_message_end |-> REACHED_END, field_end |-> REACHED_END,
                           parent_message_ends |-> <<>>, root_end |-> 0],
               out |-> Blank, trail |-> <<>>]
    /\ emitted = <<>>
    /\ columns \in IF mode = "simple" THEN {DefaultColumns} ELSE ColumnSets

Init ==
    /\ input \in Inputs
    /\ stream = EncodeStream(input)
    /\ mode \in {"simple", "dispatch"}
    /\ pos = 0
    /\ bufStart = 0
    /\ cursor = 1
    /\ current_message_end = REACHED_END
    /\ field_end = REACHED_END
    /\ parent_message_ends = <<>>
    /\ current_message = "null"
    /\ current_field_index = 0
    /\ current_converter = "null"
    /\ err = "none"
    /\ root_end = 0
    /\ disciplined = TRUE
    /\ last = [op |-> "new", ret |-> TRUE, arg |-> 0, mid |-> 0,
               prev |-> [op |-> "new", ret |-> TRUE],
               before |-> [pos |-> 0, buf |-> 0, cursor |-> 1,
                           current_message_end |-> REACHED_END, field_end |-> REACHED_END,
                           parent_message_ends |-> <<>>, root_end |-> 0],
               out |-> Blank, trail |-> <<>>]
    /\ emitted = <<>>
    /\ columns \in IF mode = "simple" THEN {DefaultColumns} ELSE ColumnSets

Open == root_end # 0
NoFrame == current_message_end = REACHED_END /\ parent_message_ends = <<>>

DispatcherUnchanged == UNCHANGED <<current_message, current_field_index, current_converter, emitted>>
Fixed == UNCHANGED <<input, stream, mode, columns>>

\* --------------------------------------------- SimpleReader driven directly
SStartMessage ==
    /\ mode = "simple" /\ err = "none"
    /\ \/ ~Open
       \/ Open /\ ~NoFrame /\ last.op = "readFieldNumber" /\ last.ret
    /\ LET Do(r) ==
               /\ SetReader(r.st)
               /\ last' = Call("startMessage", r.ret, 0, 0)
               /\ root_end' = IF Open THEN root_end
                              ELSE IF r.ret THEN r.st.current_message_end ELSE 0
       IN Do(startMessage(Reader))
    /\ disciplined' = (disciplined /\ ~Open)
    /\ DispatcherUnchanged /\ Fixed

SReadFieldNumber ==
    /\ mode = "simple" /\ err = "none" /\ Open
    /\ LET Do(r, mid) ==
               /\ SetReader(r.st)
               /\ last' = Call("readFieldNumber", r.ret, r.field_number, mid)
       IN Do(readFieldNumber(Reader), disposeField(Reader).cursor)
    /\ UNCHANGED <<root_end, disciplined>>
    /\ DispatcherUnchanged /\ Fixed

SReadUInt ==
    /\ mode = "simple" /\ err = "none" /\ Open
    /\ LET Do(r) ==
               /\ SetReader(r.st)
               /\ last' = [Call("readUInt", r.ret, 0, 0) EXCEPT !.out = Number(r.value)]
               /\ disciplined' = (disciplined /\ StaysInField("readUInt", r.st))
       IN Do(readUIntWord(Reader))
    /\ UNCHANGED root_end
    /\ DispatcherUnchanged /\ Fixed

SReadFixed ==
    /\ mode = "simple" /\ err = "none" /\ Open
    /\ \E size \in {4, 8} :
         LET Do(r) ==
                 /\ SetReader(r.st)
                 /\ last' = Call("readFixed", r.ret, size, 0)
                 /\ disciplined' = (disciplined /\ StaysInField("readFixed", r.st))
         IN Do(readFixed(Reader, size))
    /\ UNCHANGED root_end
    /\ DispatcherUnchanged /\ Fixed

SReadStringInto ==
    /\ mode = "simple" /\ err = "none" /\ Open
    /\ LET Do(r) ==
               /\ SetReader(r.st)
               /\ last' = [Call("readStringInto", r.ret, 0, 0) EXCEPT !.out = r.value]
               /\ disciplined' = (disciplined /\ StaysInField("readStringInto", r.st))
       IN Do(readStringIntoBuffer(Reader))
    /\ UNCHANGED root_end
    /\ DispatcherUnchanged /\ Fixed

SEndMessage ==
    /\ mode = "simple" /\ err = "none" /\ Open
    /\ LET Do(t) ==
               /\ SetReader(t)
               /\ last' = Call("endMessage", TRUE, 0, 0)
               /\ root_end' = IF parent_message_ends = <<>> /\ t.err = "none" THEN 0 ELSE root_end
       IN Do(endMessage(Reader))
    /\ disciplined' = (disciplined /\ last.op = "readFieldNumber" /\ ~last.ret)
    /\ DispatcherUnchanged /\ Fixed

SEndRootMessage ==
    /\ mode = "simple" /\ err = "none"
    /\ Open \/ last.op = "endMessage"
    /\ LET Do(t) ==
               /\ SetReader(t)
               /\ last' = Call("endRootMessage", TRUE, 0, 0)
               /\ root_end' = IF t.err = "none" THEN 0 ELSE root_end
       IN Do(endRootMessage(Reader))
    /\ disciplined' = FALSE
    /\ DispatcherUnchanged /\ Fixed

\* ------------------------------------------------------------ ProtobufReader
PStartMessage ==
    /\ mode = "dispatch" /\ err = "none" /\ current_message = "null"
    /\ LET Do(r) ==
               /\ SetReader(r.st)
               /\ last' = Call("startMessage", r.ret, 0, 0)
               /\ root_end' = IF r.ret THEN r.st.current_message_end ELSE 0
               /\ current_message' = IF r.ret THEN "root" ELSE current_message
               /\ current_field_index' = IF r.ret THEN 0 ELSE current_field_index
               /\ emitted' = <<>>
       IN Do(startMessage(Reader))
    /\ UNCHANGED <<current_converter, disciplined>>
    /\ Fixed

PReadColumnIndex ==
    /\ mode = "dispatch" /\ err = "none" /\ current_message # "null"
    /\ LET Do(d) ==
               /\ SetReader(d.st)
               /\ current_message' = d.current_message
               /\ current_field_index' = d.current_field_index
               /\ current_converter' = d.current_converter
               /\ last' = [Call("readColumnIndex", d.ret, d.column_index, 0)
                               EXCEPT !.trail = d.trail]
       IN Do(readColumnIndex([st |-> Reader, current_message |-> current_message,
                              current_field_index |-> current_field_index,
                              current_converter |-> current_converter,
                              column_index |-> -1, ret |-> FALSE, trail |-> <<>>]))
    /\ disciplined' = (disciplined /\ ~(last.op = "readColumnIndex" /\ last.ret))
    /\ UNCHANGED <<root_end, emitted>>
    /\ Fixed

\* the caller pulls a value through current_converter
PConverterRead ==
    /\ mode = "dispatch" /\ err = "none" /\ current_converter # "null"
    /\ \/ last.op = "readColumnIndex" /\ last.ret
       \/ last.op = "read" /\ last.ret
    /\ LET Do(r) ==
               /\ SetReader(r.st)
               /\ last' = [Call("read", r.ret, last.arg, 0) EXCEPT !.out = r.value]
               /\ emitted' = IF r.ret /\ r.st.err = "none"
                             THEN Append(emitted, <<last.arg, r.value>>) ELSE emitted
       IN Do(ConverterRead(current_converter, columns[last.arg], Reader))
    /\ disciplined' = (disciplined /\ last.op = "readColumnIndex")
    /\ UNCHANGED <<root_end, current_message, current_field_index, current_converter>>
    /\ Fixed

PEndMessage ==
    /\ mode = "dispatch" /\ err = "none" /\ current_message # "null"
    /\ LET Do(t) ==
               /\ SetReader(t)
               /\ last' = Call("endMessage", TRUE, 0, 0)
               /\ root_end' = IF t.err = "none" THEN 0 ELSE root_end
       IN Do(endRootMessage(Reader))
    /\ disciplined' = (disciplined /\ last.op = "readColumnIndex" /\ ~last.ret)
    /\ current_message' = "null"
    /\ current_converter' = "null"
    /\ UNCHANGED <<current_field_index, emitted>>
    /\ Fixed

Next ==
    \/ SStartMessage
    \/ SReadFieldNumber
    \/ SReadUInt
    \/ SReadFixed
    \/ SReadStringInto
    \/ SEndMessage
    \/ SEndRootMessage
    \/ PStartMessage
    \/ PReadColumnIndex
    \/ PConverterRead
    \/ PEndMessage

Spec == Init /\ [][Next]_vars

TypeOK == err \in {"none", "IO", "UnknownFormat"}

\* ------------------------------------------------------- facts of the input
RECURSIVE WellFormedItems(_)
WellFormedItem(it) ==
    CASE it.k = "LD" -> it.len = <<Len(it.v)>>
      [] it.k = "RAW" -> FALSE
      [] it.k = "M" -> it.len = <<Len(EncodeItems(it.inner))>> /\ WellFormedItems(it.inner)
      [] it.k = "G" -> WellFormedItems(it.inner)
      [] OTHER -> TRUE
WellFormedItems(items) == \A i \in 1..Len(items) : WellFormedItem(items[i])

WellFormed(ms) == \A i \in 1..Len(ms) : ms[i].delta = 0 /\ WellFormedItems(ms[i].items)

\* stream positions at which the root messages of ms begin, and the end of the stream
MessageStarts(ms) == {Len(EncodeStream(SubSeq(ms, 1, i))) : i \in 0..Len(ms)}

\* index of the schema field of message with this number, 0 if there is none
SchemaField(message, field_number) ==
    LET fields == Schema[message].fields
        hits == {i \in 1..Len(fields) : fields[i].field_number = field_number}
    IN IF hits = {} THEN 0 ELSE CHOOSE i \in hits : TRUE

\* the column indices of the schema leaves of items, in stream order
RECURSIVE ExpectedColumns(_, _)
ExpectedColumns(items, message) ==
    IF items = <<>> THEN <<>>
    ELSE LET it == Head(items)
             at == SchemaField(message, it.fn)
             f == Schema[message].fields[at]
             here == IF at = 0 THEN <<>>
                     ELSE IF f.nested_message = "null" THEN <<f.column_index>>
                     ELSE IF it.k \in {"M", "G"} THEN ExpectedColumns(it.inner, f.nested_message)
                     ELSE <<>>
         IN here \o ExpectedColumns(Tail(items), message)

\* items without the fields whose number is not in the schema of their message
RECURSIVE Strip(_, _)
Strip(items, message) ==
    IF items = <<>> THEN <<>>
    ELSE LET it == Head(items)
             at == SchemaField(message, it.fn)
             f == Schema[message].fields[at]
             here == IF at = 0 THEN <<>>
                     ELSE IF f.nested_message = "null" THEN <<it>>
                     ELSE IF it.k = "M" THEN <<Msg(it.fn, Strip(it.inner, f.nested_message), 0)>>
                     ELSE IF it.k = "G" THEN <<Grp(it.fn, Strip(it.inner, f.nested_message))>>
                     ELSE <<it>>
         IN here \o Strip(Tail(items), message)

\* the row that startMessage, then readColumnIndex with one converter read
\* per yielded column, reports for the first message of data
RECURSIVE RowFrom(_, _)
RowFrom(d, row) ==
    LET Value(n, r) ==
            IF r.st.err # "none" THEN [emitted |-> row, err |-> r.st.err]
            ELSE RowFrom([n EXCEPT !.st = r.st],
                         IF r.ret THEN Append(row, <<n.column_index, r.value>>) ELSE row)
        Column(n) ==
            IF n.st.err # "none" THEN [emitted |-> row, err |-> n.st.err]
            ELSE IF ~n.ret THEN [emitted |-> row, err |-> "none"]
            ELSE Value(n, ConverterRead(n.current_converter, columns[n.column_index], n.st))
    IN Column(readColumnIndex(d))

RowOf(data) ==
    LET Started(m) ==
            IF m.st.err # "none" \/ ~m.ret THEN [emitted |-> <<>>, err |-> m.st.err]
            ELSE RowFrom([st |-> m.st, current_message |-> "root", current_field_index |-> 0,
                          current_converter |-> "null", column_index |-> -1, ret |-> FALSE,
                          trail |-> <<>>], <<>>)
    IN Started(startMessage(NewReader(data)))

\* <<p, e>>: p is a position directly inside a group of items (at its start
\* or after one of its items), e the position after its GROUP_END; base is
\* the stream position of the first byte of items
RECURSIVE GroupPoints(_, _)
GroupPoints(items, base) ==
    UNION {LET it == items[i]
               at == base + Len(EncodeItems(SubSeq(items, 1, i - 1)))
               hdr == IF it.k = "M" THEN 1 + Len(it.len) ELSE 1
               body == Len(EncodeItems(it.inner))
           IN (IF it.k = "G"
               THEN {<<at + 1 + Len(EncodeItems(SubSeq(it.inner, 1, j))), at + body + 2>> :
                        j \in 0..Len(it.inner)}
               ELSE {})
              \cup (IF it.k \in {"G", "M"} THEN GroupPoints(it.inner, at + hdr) ELSE {})
           : i \in 1..Len(items)}

RowFinished == last.op = "readColumnIndex" /\ ~last.ret /\ err = "none"
TypedReads == {"readUInt", "readFixed", "readStringInto"}
Concrete(e) == e \notin {REACHED_END, END_OF_VARINT, END_OF_GROUP}

\* ------------------------------------------------------------------ claims

\* C1: on a well-formed concatenation of length-prefixed root messages,
\* startMessage, readFieldNumber until false (with typed reads that stay in
\* their field), endMessage, repeated, raises no error; every startMessage
\* that returns true begins at the start of a message, every endMessage
\* leaves the stream at the end of a message, and a startMessage that
\* returns false is at the end of the stream and consumes nothing.
C1_ConsumesStreamExactly ==
    (mode = "simple" /\ disciplined /\ WellFormed(input)) =>
        /\ err = "none"
        /\ (last.op = "startMessage" /\ last.ret) =>
               (last.before.pos \in MessageStarts(input) /\ last.before.pos < Len(stream))
        /\ (last.op = "startMessage" /\ ~last.ret) =>
               (last.before.pos = Len(stream) /\ pos = last.before.pos)
        /\ (last.op = "endMessage") => pos \in MessageStarts(input)

\* C2: on a well-formed stream, the fields whose numbers are not in the
\* schema of their message do not change the row: the (column_index, value)
\* pairs reported up to the end of the row are those reported for the same
\* message without these fields.
C2_UnknownFieldsChangeNothing ==
    (mode = "dispatch" /\ disciplined /\ RowFinished /\ WellFormed(input)) =>
        LET plain == RowOf(EncodeMessage([items |-> Strip(input[1].items, "root"), delta |-> 0]))
        IN plain.err = "none" /\ plain.emitted = emitted

\* C3: every field of the schema of current_message, leaf or container, is
\* located from the current current_field_index: by the linear advance, or
\* else by the lookup in field_number_to_field_map.
C3_EverySchemaFieldIsLocated ==
    (mode = "dispatch" /\ current_message # "null") =>
        \A i \in 1..Len(Schema[current_message].fields) :
            LET fields == Schema[current_message].fields
                index == LinearAdvance(fields, current_field_index, fields[i].field_number)
            IN LocateField(current_message, index, fields[i].field_number) = i

\* C4: at the end of a row of a well-formed stream the yielded column
\* indices are the columns of the schema leaves of the message, one per
\* occurrence and in stream order, the leaves of nested messages included.
C4_OccurrencesInStreamOrder ==
    (mode = "dispatch" /\ disciplined /\ RowFinished /\ WellFormed(input)) =>
        [i \in 1..Len(emitted) |-> emitted[i][1]] = ExpectedColumns(input[1].items, "root")

\* C5: a typed read that reads the whole pending non-packed field (readUInt
\* on a VARINT field, readFixed of the size of the field, readStringInto)
\* marks the field consumed, and a typed read on a consumed field returns
\* false and moves neither the cursor nor the stream.
C5_OneValuePerField ==
    (last.op \in TypedReads /\ mode = "simple" /\ err = "none") =>
        /\ (last.before.field_end = REACHED_END) =>
               (~last.ret /\ cursor = last.before.cursor /\ pos = last.before.pos
                /\ field_end = REACHED_END)
        /\ (last.ret /\ (\/ last.op = "readUInt" /\ last.before.field_end = END_OF_VARINT
                         \/ last.op = "readFixed" /\ last.before.field_end = last.before.cursor + last.arg
                         \/ last.op = "readStringInto")) =>
               field_end = REACHED_END

\* a second typed read on a field whose value was just read, an empty string included
C5_SecondReadOfEmptyString ==
    /\ last.op = "readStringInto" /\ ~last.ret /\ err = "none"
    /\ last.prev.op = "readStringInto" /\ last.prev.ret
    /\ last.before.field_end = REACHED_END
    /\ input[1].items = <<E3>>

\* C6: after endRootMessage on an open root message, the parent stack is
\* empty, current_message_end and field_end are REACHED_END and the cursor
\* is at the end of the root message.
C6_EndRootMessageAligns ==
    (last.op \in {"endRootMessage", "endMessage"} /\ err = "none"
     /\ (mode = "dispatch" \/ last.op = "endRootMessage") /\ last.before.root_end # 0) =>
        /\ parent_message_ends = <<>>
        /\ current_message_end = REACHED_END
        /\ field_end = REACHED_END
        /\ cursor = last.before.root_end

\* the endMessage calls made on a frame that the cursor has overshot
Overshot ==
    /\ last.op = "endMessage" /\ mode = "simple"
    /\ Concrete(last.before.current_message_end)
    /\ U64Gt(last.before.cursor, last.before.current_message_end)

OvershootDistance == last.before.cursor - last.before.current_message_end

\* C7 as stated: endMessage on an overshot frame rewinds the cursor to
\* current_message_end when the frame is nested, and raises UnknownFormat
\* when the frame is the root.
C7_RewindsNestedRaisesAtRoot ==
    Overshot =>
        IF last.before.parent_message_ends # <<>>
        THEN err = "none" /\ pos = last.before.pos - OvershootDistance
        ELSE err = "UnknownFormat"

\* C7, amended: endMessage on an overshot frame raises UnknownFormat when the
\* frame is nested and leaves the cursor where it was; when the frame is the
\* root it rewinds cursor and stream to current_message_end, or raises
\* UnknownFormat and moves nothing if the distance exceeds the buffer offset.
C7_RaisesNestedRewindsAtRoot ==
    Overshot =>
        IF last.before.parent_message_ends # <<>>
        THEN err = "UnknownFormat" /\ cursor = last.before.cursor /\ pos = last.before.pos
        ELSE IF OvershootDistance <= last.before.pos - last.before.buf
        THEN /\ err = "none"
             /\ pos = last.before.pos - OvershootDistance
             /\ cursor = 1 + pos
             /\ current_message_end = REACHED_END
        ELSE err = "UnknownFormat" /\ cursor = last.before.cursor /\ pos = last.before.pos

\* an overshot root frame has been rewound
C7_RootFrameRewound ==
    /\ Overshot /\ last.before.parent_message_ends = <<>> /\ err = "none"
    /\ cursor = last.before.current_message_end /\ cursor < last.before.cursor

\* the first item of the first message is a nested message of the schema
\* that is declared longer than the rest of the root message
OverlongFirst ==
    /\ input[1].items # <<>>
    /\ input[1].items[1] = Msg(2, <<F1>>, 2)
    /\ Len(input[1].items) = 1

\* C8: a nested message declared longer than the rest of its parent frame
\* raises UnknownFormat no later than the endMessage that closes the nested
\* frame: unless the stream ends first, an endMessage on such a frame raises
\* it, and a row that descends into such a nested message does not finish
\* without it.
C8_OverlongNestedRaises ==
    /\ (/\ last.op = "endMessage" /\ mode = "simple"
        /\ last.before.parent_message_ends # <<>>
        /\ Concrete(last.before.current_message_end)
        /\ Concrete(last.before.parent_message_ends[Len(last.before.parent_message_ends)])
        /\ U64Gt(last.before.current_message_end,
                 last.before.parent_message_ends[Len(last.before.parent_message_ends)])
        /\ err # "IO")
       => err = "UnknownFormat"
    /\ (/\ mode = "dispatch" /\ OverlongFirst
        /\ last.op = "readColumnIndex" /\ ~last.ret /\ err # "IO")
       => err = "UnknownFormat"

\* C9: on a well-formed stream, endMessage on a group frame called at a
\* position directly inside the group consumes the stream up to and
\* including the matching GROUP_END without an error, and so does
\* readFieldNumber when it disposes of a GROUP_START field that was not read.
C9_GroupIsSkipped ==
    WellFormed(input) =>
        \A pe \in GroupPoints(input[1].items, 1) :
            /\ (/\ last.op = "endMessage" /\ mode = "simple"
                /\ last.before.current_message_end = END_OF_GROUP
                /\ last.before.pos = pe[1])
               => (err = "none" /\ pos = pe[2])
            /\ (/\ last.op = "readFieldNumber" /\ mode = "simple" /\ disciplined
                /\ last.before.field_end = END_OF_GROUP
                /\ last.before.pos = pe[1])
               => (err = "none" /\ last.mid = pe[2] + 1)

\* C10: when readFieldNumber disposes of a pending BITS32, BITS64 or
\* LENGTH_DELIMITED field and goes on, the cursor after the disposal is the
\* end of that field: the position after its header plus its declared length.
C10_SkipLandsOnFieldEnd ==
    (/\ last.op = "readFieldNumber"
     /\ Concrete(last.before.field_end)
     /\ err = "none")
    => last.mid = last.before.field_end

\* the scanner as it was before the last call
BeforeReader ==
    [data |-> stream, pos |-> last.before.pos, buf |-> last.before.buf,
     cursor |-> last.before.cursor,
     current_message_end |-> last.before.current_message_end,
     field_end |-> last.before.field_end,
     parent_message_ends |-> last.before.parent_message_ends, err |-> "none"]

\* the last call was a readUInt that ran readVarint
RanReadVarint ==
    last.op = "readUInt" /\ mode = "simple"
    /\ U64Lt(last.before.cursor, last.before.field_end)

\* ten bytes are there, nine with the continuation bit and a tenth that is not 1
TenthByteBad ==
    /\ last.before.pos + 10 <= Len(stream)
    /\ \A i \in 1..9 : stream[last.before.pos + i] >= 128
    /\ stream[last.before.pos + 10] # 1

\* C11: a readVarint that returns has consumed between 1 and 10 bytes and
\* has advanced the cursor by the number of bytes consumed; on a varint of
\* ten bytes whose tenth byte is not 0x01, readVarint raises UnknownFormat.
C11_VarintLengthAndTenthByte ==
    RanReadVarint =>
        /\ (err = "none") =>
               /\ last.ret
               /\ pos - last.before.pos \in 1..10
               /\ cursor - last.before.cursor = pos - last.before.pos
        /\ TenthByteBad => err = "UnknownFormat"

\* a varint of ten bytes has been read
C11_TenByteVarintRead ==
    /\ RanReadVarint /\ err = "none" /\ last.ret
    /\ pos - last.before.pos = 10 /\ cursor - last.before.cursor = 10

\* the last call was a readFieldNumber that went on to read a tag key
HeaderRead ==
    /\ last.op = "readFieldNumber"
    /\ LET Disposed(a) == a.err = "none" /\ U64Lt(a.cursor, a.current_message_end)
       IN Disposed(disposeField(BeforeReader))

\* the key is a whole varint that readVarint accepts, and its word
KeyComplete == VarintStop(stream, last.mid - 1, 0) \in 0..9
KeyWord == VarintBits(stream, last.mid - 1, 0, {})

\* C12: readFieldNumber raises UnknownFormat for every tag key that has one
\* of its upper 32 bits set, and reports no field number for such a key.
C12_KeyAbove32BitsRaises ==
    (HeaderRead /\ KeyComplete /\ KeyWord \cap (32..63) # {}) =>
        (err = "UnknownFormat" /\ ~last.ret /\ last.arg = 0)

\* the key 2^32 has been read and refused
C12_Key32Refused ==
    HeaderRead /\ KeyComplete /\ KeyWord = {32} /\ err = "UnknownFormat"

\* the key read is a GROUP_END tag
GroupEndKey ==
    /\ HeaderRead /\ KeyComplete
    /\ KeyWord \cap (32..63) = {}
    /\ And(KeyWord, 0..2) = {2}

\* C13: when readFieldNumber decodes a GROUP_END tag in a group frame it
\* marks the frame finished and returns false; in every other frame, the
\* root frame included, it raises UnknownFormat.
C13_GroupEndClosesGroupOnly ==
    GroupEndKey =>
        IF last.before.current_message_end = END_OF_GROUP
        THEN err = "none" /\ ~last.ret /\ current_message_end = REACHED_END
        ELSE err = "UnknownFormat"

\* a GROUP_END tag was met in the root frame
C13_GroupEndAtRoot ==
    /\ GroupEndKey /\ last.before.parent_message_ends = <<>>
    /\ Concrete(last.before.current_message_end)
    /\ err = "UnknownFormat"

\* the last call was an endRootMessage right after the endMessage that
\* closed the root frame
AfterCleanEnd ==
    /\ last.op = "endRootMessage" /\ mode = "simple"
    /\ last.prev.op = "endMessage" /\ last.before.root_end = 0

\* C14: endRootMessage right after a clean endMessage of the root frame
\* changes nothing: cursor, current_message_end, field_end, the parent stack
\* and the stream position are what they were.
C14_EndRootAfterEndIsNoOp ==
    AfterCleanEnd =>
        /\ err = "none"
        /\ cursor = last.before.cursor /\ pos = last.before.pos
        /\ bufStart = last.before.buf
        /\ current_message_end = last.before.current_message_end
        /\ field_end = last.before.field_end
        /\ parent_message_ends = last.before.parent_message_ends

\* endRootMessage was called on a closed root frame of a message with a field
C14_EndRootOnClosedFrame ==
    AfterCleanEnd /\ err = "none" /\ cursor > 2 /\ current_message_end = REACHED_END

\* the last call was a converter read that pulled a value from the scanner
\* without a scanner error
ConverterPulled ==
    /\ mode = "dispatch" /\ last.op = "read"
    /\ U64Lt(last.before.cursor, last.before.field_end)
    /\ err \notin {"IO", "UnknownFormat"}

Target == columns[last.arg]

\* the varint at the position of the read, as a word
WireVarint == VarintBits(stream, last.before.pos, 0, {})

\* (n >> 1) XOR -(n & 1)
ZigZagDecoded(n) == Xor(Shr(n, 1), IF 0 \in n THEN Word ELSE {})

\* (v << 1) XOR (v >> 63), the shift to the right being arithmetic
ZigZagOf(v) == Xor(Shl(v, 1), IF 63 \in v THEN Word ELSE {})

\* the value on the wire of the field that was read, in its native type
WireWord ==
    CASE current_converter = "TYPE_UINT64" -> WireVarint
      [] current_converter = "TYPE_SINT64" -> ZigZagDecoded(WireVarint)
      [] OTHER -> FixedBits(Bytes(stream, last.before.pos, 4))

\* the integer that the word w of the type From stands for, if it is small
IsSmallWord(From, w) ==
    IF IsSigned(From) /\ 63 \in w THEN (16..63) \subseteq w ELSE w \subseteq 0..15
IntegerOf(From, w) ==
    IF IsSigned(From) /\ 63 \in w THEN SumOfBits(w \cap (0..15)) - 2 ^ 16 ELSE SumOfBits(w)

\* the range of the integer types of 8 and 16 bits
LowestOf(type) ==
    CASE type = "Int8" -> -128 [] type = "Int16" -> -32768 [] OTHER -> 0
HighestOf(type) ==
    CASE type = "Int8" -> 127 [] type = "UInt8" -> 255
      [] type = "Int16" -> 32767 [] OTHER -> 65535

\* the value of the word w of the type From lies in the range of To
InTargetRange(To, From, w) ==
    CASE To = "UInt64" -> ~(IsSigned(From) /\ 63 \in w)
      [] To = "Int64" -> IsSigned(From) \/ 63 \notin w
      [] To = "UInt32" -> ~(IsSigned(From) /\ 63 \in w) /\ w \subseteq 0..31
      [] OTHER -> /\ IsSmallWord(From, w)
                  /\ IntegerOf(From, w) >= LowestOf(To)
                  /\ IntegerOf(From, w) <= HighestOf(To)

NumericTargets == {"Int8", "UInt8", "Int16", "UInt16", "UInt32", "Int64", "UInt64"}

ZigZagSamples ==
    {WordOf(k) : k \in 0..8} \cup {Not(WordOf(k)) : k \in 0..8}
    \cup {{63}, Word \ {63}, {62}, Not({62})}

\* C16: readSInt returns (n >> 1) XOR -(n & 1) of the decoded varint n, and
\* that value is the one whose ZigZag encoding (v << 1) XOR (v >> 63) is n:
\* decoding the encoding of v yields v.
C16_ZigZagRoundTrip ==
    (ConverterPulled /\ current_converter = "TYPE_SINT64" /\ Target = "Int64") =>
        /\ err = "none" /\ last.ret
        /\ last.out = Number(ZigZagDecoded(WireVarint))
        /\ ZigZagOf(last.out.num) = WireVarint
        /\ \A v \in ZigZagSamples : decodeZigZag(ZigZagOf(v)) = v

\* the ZigZag code 2^64 - 3 was read as -(2^63) + 1
C16_LargeNegativeRead ==
    /\ ConverterPulled /\ current_converter = "TYPE_SINT64" /\ Target = "Int64"
    /\ err = "none" /\ last.out.num = {0, 63}

\* the number on the wire of the enum field that was read, 0..255
WireNumber == CHOOSE k \in 0..255 : WordOf(k) = WireVarint

\* the pairs of the target enum type whose name is the descriptor name of k
PairsNamed(k) ==
    {i \in 1..Len(NameValuePairs) :
        k \in DOMAIN EnumDescriptor /\ NameValuePairs[i].name = EnumDescriptor[k]}

\* C17: for a TYPE_ENUM field, a String target yields the descriptor name of
\* the wire number, an Enum target the supplied value whose name is that
\* descriptor name, a numeric target the range-checked wire number; the
\* first two raise BadCast when there is no such name or no such value.
C17_EnumTargets ==
    (ConverterPulled /\ current_converter = "TYPE_ENUM" /\ WireVarint \subseteq 0..7) =>
        CASE Target = "String" ->
               IF WireNumber \in DOMAIN EnumDescriptor
               THEN err = "none" /\ last.ret /\ last.out = Text(EnumDescriptor[WireNumber])
               ELSE err = "BadCast"
          [] Target = "Enum8" ->
               IF PairsNamed(WireNumber) # {}
               THEN /\ err = "none" /\ last.ret
                    /\ \E i \in PairsNamed(WireNumber) :
                           last.out = Number(WordOf(NameValuePairs[i].value))
               ELSE err = "BadCast"
          [] OTHER ->
               IF InTargetRange(Target, "Int64", WireVarint)
               THEN err = "none" /\ last.ret /\ last.out = Number(WireVarint)
               ELSE err = "BadCast"

\* the enum number 1 was delivered as the supplied value 10
C17_EnumValueDelivered ==
    /\ ConverterPulled /\ current_converter = "TYPE_ENUM" /\ Target = "Enum8"
    /\ WireVarint = {0} /\ err = "none" /\ last.out = Number(WordOf(10))

\* C18: a typed read, through the scanner or through a converter, that ends
\* with an error leaves the caller's output as it was handed in.
C18_NoPartialValue ==
    (last.op \in TypedReads \cup {"read"} /\ err # "none") => last.out = Blank

\* the ends of the open frames from the bottom of the stack to the top
FrameEnds == Append(parent_message_ends, current_message_end)

\* C19: while a message is decoded, the end of every nested frame, when it
\* is a position, does not exceed the end of the frame below it.
C19_FramesNest ==
    err = "none" =>
        \A i \in 1..Len(parent_message_ends) :
            (Concrete(FrameEnds[i]) /\ Concrete(FrameEnds[i + 1])) =>
                ~U64Gt(FrameEnds[i + 1], FrameEnds[i])

\* C20: in every state REACHED_END < cursor < min(END_OF_VARINT,
\* END_OF_GROUP), after the rewinds of endMessage and endRootMessage too.
C20_CursorBetweenSentinels ==
    /\ U64Lt(REACHED_END, cursor)
    /\ U64Lt(cursor, END_OF_GROUP) /\ U64Lt(cursor, END_OF_VARINT)

\* endRootMessage has moved the cursor backward
C20_AfterRewindOfEndRoot ==
    /\ last.op \in {"endRootMessage", "endMessage"} /\ err = "none"
    /\ cursor < last.before.cursor

\* the iterations of the last readColumnIndex
Iterations == IF last.op = "readColumnIndex" THEN last.trail ELSE <<>>

\* C21: at every descent of readColumnIndex into a nested message, the
\* field_end that startMessage takes as the end of the pushed frame is the
\* end of a length-delimited field or END_OF_GROUP, never END_OF_VARINT or
\* REACHED_END.
C21_DescentTakesFramingFieldEnd ==
    \A i \in 1..Len(Iterations) :
        Iterations[i].kind = "down" =>
            Iterations[i].field_end \notin {END_OF_VARINT, REACHED_END}

\* the tag key of the last readFieldNumber is a whole varint below 2^32
TagRead == HeaderRead /\ KeyComplete /\ KeyWord \cap (32..63) = {}

\* key & 7, and the cursor after the key
TagWireType == SumOfBits(And(KeyWord, 0..2))
AfterTag == last.mid + VarintStop(stream, last.mid - 1, 0) + 1

\* the length varint after the key: its word, its number of bytes, and its
\* value as a representative when that is below 2^28 or at least 2^64 - 2^28
LengthWord == VarintBits(stream, AfterTag - 1, 0, {})
LengthBytes == VarintStop(stream, AfterTag - 1, 0) + 1
LengthKnown == LengthWord \subseteq 0..27 \/ Not(LengthWord) \subseteq 0..27
DeclaredLength ==
    IF LengthWord \subseteq 0..27 THEN SumOfBits(LengthWord)
    ELSE -1 - SumOfBits(Not(LengthWord))

\* C22: when readFieldNumber returns true, field_number is key >> 3 and
\* field_end is cursor + 8 for BITS64, cursor + 4 for BITS32, cursor + L
\* after the length varint L for LENGTH_DELIMITED, END_OF_VARINT for VARINT
\* and END_OF_GROUP for GROUP_START, the cursor being the one after the
\* header; a tag with the wire type 6 or 7 raises UnknownFormat.
C22_HeaderSetsFieldEndByWireType ==
    TagRead =>
        /\ (last.ret /\ err = "none") =>
               /\ WordOf(last.arg) = Shr(KeyWord, 3)
               /\ CASE TagWireType = BITS64 -> cursor = AfterTag /\ field_end = cursor + 8
                    [] TagWireType = BITS32 -> cursor = AfterTag /\ field_end = cursor + 4
                    [] TagWireType = VARINT -> cursor = AfterTag /\ field_end = END_OF_VARINT
                    [] TagWireType = GROUP_START -> cursor = AfterTag /\ field_end = END_OF_GROUP
                    [] TagWireType = LENGTH_DELIMITED ->
                         /\ cursor = AfterTag + LengthBytes
                         /\ LengthKnown => field_end = cursor + DeclaredLength
                    [] OTHER -> FALSE
        /\ TagWireType \in {VARINT, BITS64, GROUP_START, BITS32} => (last.ret /\ err = "none")
        /\ TagWireType \in {6, 7} => (err = "UnknownFormat" /\ ~last.ret)

\* the header of a length-delimited field with a length of its own was read
C22_LengthDelimitedHeaderRead ==
    /\ TagRead /\ last.ret /\ err = "none"
    /\ TagWireType = LENGTH_DELIMITED /\ DeclaredLength > 0
    /\ field_end = cursor + DeclaredLength

\* the last call ended a frame with endRootMessage
EndedRoot == last.op = "endRootMessage" \/ (mode = "dispatch" /\ last.op = "endMessage")

\* the end of the frame that the last call had to bring the cursor to
RewindTarget ==
    IF EndedRoot /\ last.before.parent_message_ends # <<>>
    THEN last.before.parent_message_ends[1]
    ELSE last.before.current_message_end

\* the last call ended a frame that the cursor had overshot and that is
\* rewound: the root frame
RewindAsked ==
    /\ last.op \in {"endMessage", "endRootMessage"}
    /\ EndedRoot \/ last.before.parent_message_ends = <<>>
    /\ RewindTarget # REACHED_END
    /\ U64Gt(last.before.cursor, RewindTarget)

RewindDistance == last.before.cursor - RewindTarget
BufferOffset == last.before.pos - last.before.buf

\* C23: the cursor decreases only in endMessage and endRootMessage; a rewind
\* there moves cursor and stream back by the same distance to the end of
\* the frame when the distance is within the offset in the current buffer,
\* and otherwise raises UnknownFormat and moves neither.
C23_RewindOnlyAtEndAndBounded ==
    /\ (cursor < last.before.cursor \/ pos < last.before.pos) =>
           last.op \in {"endMessage", "endRootMessage"}
    /\ RewindAsked =>
           IF RewindDistance > BufferOffset
           THEN err = "UnknownFormat" /\ cursor = last.before.cursor /\ pos = last.before.pos
           ELSE /\ err = "none" /\ cursor = RewindTarget
                /\ pos = last.before.pos - RewindDistance

\* a rewind beyond the start of the current buffer was refused
C23_RewindRefused ==
    RewindAsked /\ RewindDistance > BufferOffset /\ err = "UnknownFormat"

\* the nesting depth of a message in the schema tree
RECURSIVE DepthOf(_)
DepthOf(message) ==
    IF Schema[message].parent = "null" THEN 0 ELSE 1 + DepthOf(Schema[message].parent)

\* the index in the parent's fields (from 0) of the field that holds message
ContainerIndex(message) ==
    LET fields == Schema[Schema[message].parent].fields
    IN (CHOOSE k \in 1..Len(fields) : fields[k].nested_message = message) - 1

\* C24: at every iteration and at every return of readColumnIndex the
\* height of the scanner's parent stack is the nesting depth of
\* current_message; an iteration that leaves a nested message pops one
\* scanner frame and goes to the parent message with current_field_index at
\* the container field; the row is finished only at the root.
C24_DispatcherAndScannerInStep ==
    /\ \A i \in 1..Len(Iterations) :
           /\ Iterations[i].stack = DepthOf(Iterations[i].message)
           /\ Iterations[i].kind = "up" =>
                  /\ Iterations[i].after_stack = Iterations[i].stack - 1
                  /\ Iterations[i + 1].message = Schema[Iterations[i].message].parent
                  /\ Iterations[i + 1].index = ContainerIndex(Iterations[i].message)
           /\ Iterations[i].kind = "finish" =>
                  (Iterations[i].message = "root" /\ Iterations[i].stack = 0)
    /\ (last.op = "readColumnIndex" /\ err = "none") =>
           /\ Len(parent_message_ends) = DepthOf(current_message)
           /\ ~last.ret => Iterations[Len(Iterations)].kind = "finish"

\* a call has come back from the second level of nesting to the root and
\* has finished the row
C24_LeftTwoLevels ==
    /\ RowFinished
    /\ \E i \in 1..Len(Iterations) : Iterations[i].kind = "up" /\ Iterations[i].stack = 2
    /\ \E i \in 1..Len(Iterations) : Iterations[i].kind = "up" /\ Iterations[i].stack = 1

\* the sum over i < k of (byte_i AND 0x7F) * 2^(7i) modulo 2^64, for the k
\* bytes of the stream after position from; the digits do not overlap
Base128(from, k) ==
    UNION {Shl(ByteBits(stream[from + i + 1] % 128), 7 * i) : i \in 0..(k - 1)}

\* C25: readVarint returns the little-endian base-128 value of the bytes it
\* consumed: every byte contributes its low 7 bits at 7i and nothing else.
C25_VarintIsBase128 ==
    (RanReadVarint /\ last.ret /\ err = "none") =>
        last.out = Number(Base128(last.before.pos, cursor - last.before.cursor))

\* the ten bytes of 2^64 - 3, nine of them with the continuation bit, were
\* decoded
C25_TenBytesDecoded ==
    /\ RanReadVarint /\ last.ret /\ err = "none"
    /\ cursor - last.before.cursor = 10
    /\ last.out.num = Word \ {1}

\* a scanner at the stream position p with nothing pending
ReaderAt(p) ==
    [NewReader(stream) EXCEPT !.pos = p, !.buf = p - (p % BufSize), !.cursor = p + 1]

\* the two scanners have consumed the same bytes, moved the cursor by the
\* same amount and raised the same error
SameScan(a, b) ==
    a.pos = b.pos /\ a.buf = b.buf /\ a.cursor = b.cursor /\ a.err = b.err

\* readVarint and ignoreVarint agree when started at p
MirrorAt(p) ==
    LET Both(r) == SameScan(r.st, ignoreVarint(ReaderAt(p)))
    IN Both(readVarint(ReaderAt(p)))

\* the last readFieldNumber began by skipping a pending varint with ignoreVarint
SkippedVarint ==
    last.op = "readFieldNumber" /\ last.before.field_end = END_OF_VARINT

\* C26: ignoreVarint consumes the bytes that readVarint consumes, advances
\* the cursor as readVarint does and raises what readVarint raises: at every
\* position of every stream, and wherever readFieldNumber has skipped a
\* varint the scanner is where readVarint would have left it.
C26_IgnoreVarintMirrorsReadVarint ==
    /\ last.op = "new" => \A p \in 0..Len(stream) : MirrorAt(p)
    /\ SkippedVarint =>
           LET Same(r) ==
                   IF r.st.err = "none" THEN last.mid = r.st.cursor
                   ELSE err = r.st.err /\ pos = r.st.pos /\ cursor = r.st.cursor
           IN Same(readVarint(BeforeReader))

\* readFieldNumber has skipped a varint of ten bytes
C26_TenByteVarintSkipped ==
    SkippedVarint /\ err = "none" /\ last.mid = last.before.cursor + 10

\* C27: every call of readColumnIndex ends after finitely many iterations
\* of its loop: every iteration but the last consumes at least one byte of
\* the stream or pops one frame, and the last returns or raises; so the
\* iterations are no more than the bytes of the stream, the frames that
\* were open and the frames that were opened, plus one.
C27_ReadColumnIndexTerminates ==
    last.op = "readColumnIndex" =>
        /\ Len(Iterations) >= 1
        /\ \A i \in 1..Len(Iterations) :
               IF i = Len(Iterations)
               THEN Iterations[i].kind \in {"yield", "finish", "raise"}
               ELSE /\ Iterations[i].kind \in {"skip", "down", "up"}
                    /\ \/ Iterations[i].after > Iterations[i].pos
                       \/ Iterations[i].after_stack < Iterations[i].stack
        /\ Len(Iterations) <= 2 * Len(stream) + Len(last.before.parent_message_ends) + 1
        /\ last.ret \/ err # "none" \/ Iterations[Len(Iterations)].kind = "finish"

\* a call has come back up from a nested message, skipped a field of the
\* parent and finished the row
C27_LongCall ==
    /\ last.op = "readColumnIndex" /\ err = "none" /\ ~last.ret
    /\ Len(Iterations) >= 3
    /\ \E i, j \in 1..Len(Iterations) :
           Iterations[i].kind = "up" /\ Iterations[j].kind = "skip"

\* the last call was a startMessage that opened a root frame
RootOpened ==
    /\ last.op = "startMessage" /\ last.ret /\ err = "none"
    /\ last.before.current_message_end = REACHED_END
    /\ last.before.parent_message_ends = <<>>

\* C28: cursor + L does not wrap around 64 bits: the end of a root message
\* and the field_end of a length-delimited field are not below the cursor
\* after the length and are none of REACHED_END, END_OF_VARINT, END_OF_GROUP.
C28_EndPositionsDoNotWrap ==
    /\ (TagRead /\ last.ret /\ err = "none" /\ TagWireType = LENGTH_DELIMITED) =>
           (U64Ge(field_end, cursor) /\ Concrete(field_end))
    /\ RootOpened =>
           (U64Ge(current_message_end, cursor) /\ Concrete(current_message_end))

\* the last call was a typed read of a pending field with a definite end
ReadOfDefiniteField ==
    /\ last.op \in TypedReads \cup {"read"} /\ err = "none"
    /\ Concrete(last.before.field_end)
    /\ ~U64Gt(last.before.cursor, last.before.field_end)

\* C29: a typed read of a BITS32, BITS64 or LENGTH_DELIMITED field leaves
\* the cursor at or before the field_end that readFieldNumber set for it.
C29_ReadStaysInField ==
    ReadOfDefiniteField => ~U64Gt(cursor, last.before.field_end)

====
